---------------------------- MODULE Spec2Model ----------------------------
(***************************************************************************)
(* Model of the quiz_3 basic vector class (vector.hpp) and of its          *)
(* reference-value harness test().                                         *)
(*                                                                         *)
(* A coordinate is a C++ double.  TLC's integers are 32 bits wide, so a    *)
(* double is held as a record [neg, mant, exp] standing for                *)
(* (-1)^neg * mant * 2^exp, the mantissa a little-endian sequence of       *)
(* 15-bit limbs.  Every arithmetic operation computes the exact result and *)
(* rounds it to 53 significant bits, ties to even, as IEEE-754 binary64    *)
(* does; a result below the normal range is rounded at the subnormal       *)
(* spacing 2^-1074, a result of magnitude 2^1024 or more is an infinity.   *)
(* The zeros carry their sign; the infinities and the NaN are the records  *)
(* with an empty mantissa and the exponents MaxExp and MaxExp + 1.  All    *)
(* NaNs are one value: no operation of the program tells them apart.       *)
(*                                                                         *)
(* A cell of storage that was never written has no value the program       *)
(* fixes: reading it gives whatever bit pattern the build left there.  The *)
(* record Indeterminate stands for such a content, any value of the type,  *)
(* and every operation on it gives Indeterminate, any value, again.        *)
(***************************************************************************)
EXTENDS Integers, Sequences, FiniteSets, TLC

(***************************************************************************)
(* Natural numbers of unbounded width: little-endian limb sequences with   *)
(* no leading zero limb; <<>> is 0.                                         *)
(***************************************************************************)
Base == 2^15

RECURSIVE Trim(_)
Trim(n) == IF n = <<>> THEN n
           ELSE IF n[Len(n)] = 0 THEN Trim(SubSeq(n, 1, Len(n) - 1)) ELSE n

RECURSIVE NFromInt(_)
NFromInt(i) == IF i = 0 THEN <<>> ELSE <<i % Base>> \o NFromInt(i \div Base)

RECURSIVE NCmpTop(_, _, _)
NCmpTop(n, m, i) ==
    IF i = 0 THEN 0
    ELSE IF n[i] < m[i] THEN -1
    ELSE IF n[i] > m[i] THEN 1
    ELSE NCmpTop(n, m, i - 1)

NCmp(n, m) == IF Len(n) < Len(m) THEN -1
              ELSE IF Len(n) > Len(m) THEN 1
              ELSE NCmpTop(n, m, Len(n))

RECURSIVE NAddC(_, _, _)
NAddC(n, m, c) ==
    IF n = <<>> /\ m = <<>> THEN (IF c = 0 THEN <<>> ELSE <<c>>)
    ELSE LET x == IF n = <<>> THEN 0 ELSE Head(n)
             y == IF m = <<>> THEN 0 ELSE Head(m)
             s == x + y + c
         IN  <<s % Base>> \o NAddC(IF n = <<>> THEN n ELSE Tail(n),
                                   IF m = <<>> THEN m ELSE Tail(m),
                                   s \div Base)

NAdd(n, m) == NAddC(n, m, 0)

RECURSIVE NSubB(_, _, _)
NSubB(n, m, b) ==
    IF n = <<>> THEN <<>>
    ELSE LET y == IF m = <<>> THEN 0 ELSE Head(m)
             d == Head(n) - y - b
         IN  <<d % Base>> \o NSubB(Tail(n),
                                   IF m = <<>> THEN m ELSE Tail(m),
                                   IF d < 0 THEN 1 ELSE 0)

\* n - m, for n >= m
NSub(n, m) == Trim(NSubB(n, m, 0))

RECURSIVE NMulSmallC(_, _, _)
NMulSmallC(n, d, c) ==
    IF n = <<>> THEN (IF c = 0 THEN <<>> ELSE <<c>>)
    ELSE LET p == Head(n) * d + c
         IN  <<p % Base>> \o NMulSmallC(Tail(n), d, p \div Base)

\* n * d, for 0 <= d <= Base
NMulSmall(n, d) == Trim(NMulSmallC(n, d, 0))

RECURSIVE NMul(_, _)
NMul(n, m) ==
    IF n = <<>> \/ m = <<>> THEN <<>>
    ELSE LET rest == NMul(n, Tail(m))
         IN  NAdd(NMulSmall(n, Head(m)),
                  IF rest = <<>> THEN rest ELSE <<0>> \o rest)

RECURSIVE NDivRem(_, _)
NDivRem(n, d) ==
    IF n = <<>> THEN [q |-> <<>>, r |-> 0]
    ELSE LET hi  == NDivRem(Tail(n), d)
             cur == hi.r * Base + Head(n)
         IN  [q |-> <<cur \div d>> \o hi.q, r |-> cur % d]

\* floor(n / d), for 1 <= d <= Base
NDivSmall(n, d) == Trim(NDivRem(n, d).q)

Zeros(k) == [i \in 1..k |-> 0]

\* n * 2^k
NShl(n, k) == IF n = <<>> THEN n
              ELSE NMulSmall(Zeros(k \div 15) \o n, 2^(k % 15))

\* floor(n / 2^k)
NShr(n, k) == IF k \div 15 >= Len(n) THEN <<>>
              ELSE NDivSmall(SubSeq(n, (k \div 15) + 1, Len(n)), 2^(k % 15))

NPow2(k) == NShl(<<1>>, k)

\* number of significant bits of n
NBits(n) == IF n = <<>> THEN 0
            ELSE 15 * (Len(n) - 1)
                 + (CHOOSE b \in 1..15 : 2^(b-1) <= n[Len(n)] /\ n[Len(n)] < 2^b)

\* number of trailing zero bits of n, for n > 0
RECURSIVE NCtz(_)
NCtz(n) == IF Head(n) = 0 THEN 15 + NCtz(Tail(n))
           ELSE CHOOSE b \in 0..14 : Head(n) % 2^b = 0 /\ Head(n) % 2^(b+1) # 0

NIsOdd(n) == n # <<>> /\ Head(n) % 2 = 1

RECURSIVE NPow10(_)
NPow10(p) == IF p = 0 THEN <<1>> ELSE NMulSmall(NPow10(p - 1), 10)

RECURSIVE NDivPow10(_, _)
NDivPow10(n, p) == IF p = 0 THEN n ELSE NDivPow10(NDivSmall(n, 10), p - 1)

(***************************************************************************)
(* IEEE-754 binary64 values and operations.                                *)
(***************************************************************************)
MantBits == 53

\* the exponent of the least subnormal, 2^MinExp
MinExp == -1074

\* every finite double is below 2^MaxExp in magnitude
MaxExp == 1024

Zero == [neg |-> FALSE, mant |-> <<>>, exp |-> 0]

Inf(neg) == [neg |-> neg, mant |-> <<>>, exp |-> MaxExp]

NaN == [neg |-> FALSE, mant |-> <<>>, exp |-> MaxExp + 1]

\* the content of a never-written cell, or a result computed from one: any
\* value of the type double
Indeterminate == [neg |-> FALSE, mant |-> <<>>, exp |-> MaxExp + 2]

IsIndeterminate(x) == x.mant = <<>> /\ x.exp = MaxExp + 2

IsZero(x) == x.mant = <<>> /\ x.exp = 0

IsInf(x) == x.mant = <<>> /\ x.exp = MaxExp

IsNaN(x) == x.mant = <<>> /\ x.exp = MaxExp + 1

\* the canonical record of (-1)^neg * m * 2^e: odd mantissa, signed zero
Canon(neg, m, e) ==
    IF m = <<>> THEN [neg |-> neg, mant |-> <<>>, exp |-> 0]
    ELSE LET t == NCtz(m) IN [neg |-> neg, mant |-> NShr(m, t), exp |-> e + t]

\* round (-1)^neg * m * 2^e to MantBits significant bits and to a multiple
\* of 2^MinExp, ties to even
RoundFinite(neg, m, e) ==
    LET nb == NBits(m)
        sp == nb - MantBits
        su == MinExp - e
        s  == IF sp > su THEN sp ELSE su
    IN
    IF s <= 0 THEN Canon(neg, m, e)
    ELSE LET q    == NShr(m, s)
             r    == NSub(m, NShl(q, s))
             c    == NCmp(r, NPow2(s - 1))
             up   == c > 0 \/ (c = 0 /\ NIsOdd(q))
         IN  Canon(neg, IF up THEN NAdd(q, <<1>>) ELSE q, e + s)

\* r, or the infinity of its sign when r is out of range
Overflow(r) == IF NBits(r.mant) + r.exp > MaxExp THEN Inf(r.neg) ELSE r

\* the rounded value, or the infinity when it is out of range
Round(neg, m, e) == Overflow(RoundFinite(neg, m, e))

\* round a value strictly between m*2^e and (m+1)*2^e, m of more than
\* MantBits+1 bits: the half-way bit below m settles the direction
RoundInexact(neg, m, e) == Round(neg, NAdd(NShl(m, 1), <<1>>), e - 1)

FromInt(i) == IF i < 0 THEN Canon(TRUE, NFromInt(-i), 0)
              ELSE Canon(FALSE, NFromInt(i), 0)

\* the finite double of the object representation w3 w2 w1 w0, four 16-bit
\* words from the most significant: sign bit, 11 exponent bits, 52 fraction
\* bits
FromBits(w3, w2, w1, w0) ==
    LET ef   == (w3 % 2^15) \div 2^4
        frac == NAdd(NShl(NFromInt(w3 % 2^4), 48),
                     NAdd(NShl(NFromInt(w2), 32),
                          NAdd(NShl(NFromInt(w1), 16), NFromInt(w0))))
    IN  IF ef = 0 THEN Canon(w3 >= 2^15, frac, MinExp)
        ELSE IF ef = 2^11 - 1
             THEN (IF frac = <<>> THEN Inf(w3 >= 2^15) ELSE NaN)
        ELSE Canon(w3 >= 2^15, NAdd(NPow2(MantBits - 1), frac), ef - 1 + MinExp)

FNeg(x) == IF IsNaN(x) \/ IsIndeterminate(x) THEN x ELSE [x EXCEPT !.neg = ~x.neg]

Fabs(x) == [x EXCEPT !.neg = FALSE]

\* (-1)^xn * mx * 2^e + (-1)^yn * my * 2^e, c the comparison of mx with my;
\* an exact zero sum of opposite signs is +0
FAddAligned(xn, mx, yn, my, e, c) ==
    Round(IF xn = yn \/ c > 0 THEN xn ELSE IF c < 0 THEN yn ELSE FALSE,
          IF xn = yn THEN NAdd(mx, my)
          ELSE IF c >= 0 THEN NSub(mx, my) ELSE NSub(my, mx),
          e)

FAddMant(xn, mx, yn, my, e) == FAddAligned(xn, mx, yn, my, e, NCmp(mx, my))

\* x + y with both mantissas brought to the exponent e
FAddExp(x, y, e) ==
    FAddMant(x.neg, NShl(x.mant, x.exp - e), y.neg, NShl(y.mant, y.exp - e), e)

\* x + y for finite x, y
FAddFinite(x, y) == FAddExp(x, y, IF x.exp < y.exp THEN x.exp ELSE y.exp)

FAdd(x, y) ==
    IF IsIndeterminate(x) \/ IsIndeterminate(y) THEN Indeterminate
    ELSE IF IsNaN(x) \/ IsNaN(y) THEN NaN
    ELSE IF IsInf(x) THEN (IF IsInf(y) /\ x.neg # y.neg THEN NaN ELSE x)
    ELSE IF IsInf(y) THEN y
    ELSE FAddFinite(x, y)

FSub(x, y) == FAdd(x, FNeg(y))

FMul(x, y) ==
    IF IsIndeterminate(x) \/ IsIndeterminate(y) THEN Indeterminate
    ELSE IF IsNaN(x) \/ IsNaN(y) THEN NaN
    ELSE IF IsInf(x) \/ IsInf(y)
         THEN (IF IsZero(x) \/ IsZero(y) THEN NaN ELSE Inf(x.neg # y.neg))
    ELSE Round(x.neg # y.neg, NMul(x.mant, y.mant), x.exp + y.exp)

\* d < 0
IsBelowZero(d) == d.neg /\ ~IsZero(d)

\* x < y for x and y the program has computed from written cells: false when
\* either is a NaN, and -0 is not below +0
FLess(x, y) == ~IsNaN(x) /\ ~IsNaN(y) /\ IsBelowZero(FSub(x, y))

\* the largest r with r*r <= n, found bit by bit from bit b down
RECURSIVE NSqrtBits(_, _, _)
NSqrtBits(n, r, b) ==
    IF b < 0 THEN r
    ELSE LET c == NAdd(r, NPow2(b))
         IN  IF NCmp(NMul(c, c), n) <= 0 THEN NSqrtBits(n, c, b - 1)
             ELSE NSqrtBits(n, r, b - 1)

\* sqrt(x), correctly rounded: a NaN for a NaN and for x < 0, x itself for
\* the zeros and for +infinity
FSqrt(x) ==
    IF IsNaN(x) \/ IsIndeterminate(x) THEN x
    ELSE IF IsZero(x) THEN x
    ELSE IF x.neg THEN NaN
    ELSE IF IsInf(x) THEN x
    ELSE LET k  == 2 * (MantBits + 3) + (x.exp % 2)
             n  == NShl(x.mant, k)
             r  == NSqrtBits(n, <<>>, (NBits(n) + 1) \div 2)
             e  == (x.exp - k) \div 2
         IN  IF NMul(r, r) = n THEN Round(FALSE, r, e)
             ELSE RoundInexact(FALSE, r, e)

\* the double nearest to the decimal literal k * 10^(-p), p >= 0
FromDecimal(k, p) ==
    IF k = 0 THEN Zero
    ELSE LET a  == NFromInt(IF k < 0 THEN -k ELSE k)
             s  == MantBits + 3 + 4 * p
             n  == NShl(a, s)
             q  == NDivPow10(n, p)
         IN  IF NMul(q, NPow10(p)) = n THEN Round(k < 0, q, -s)
             ELSE RoundInexact(k < 0, q, -s)


(***************************************************************************)
(* The Vector<N> class and the free functions of vector.hpp.  A vector's   *)
(* storage "double u[N]" is a function from 0..N-1 to doubles.             *)
(***************************************************************************)
N == 3

Idx == 0 .. (N - 1)

\* Vector( initializer_list<double> coords ): u[i] = c for each c, i = 0, 1, ...
\* with no bound on i; storage the list does not reach is never written and
\* stays indeterminate: "stale" is the content it is read as afterwards.
\* "touched" is the set of storage indices the loop writes.
Construct(stale, list) ==
    [storage |-> [i \in Idx |-> IF i < Len(list) THEN list[i + 1] ELSE stale[i]],
     touched |-> {k - 1 : k \in 1 .. Len(list)}]

\* operator[]( int i ): assert( i >= 0 && i < N ), then the reference to u[i].
\* The sources define no NDEBUG: a failed assert aborts with no storage touched.
At(p, i) ==
    IF i >= 0 /\ i < N THEN [ok |-> TRUE, touched |-> {i}]
    ELSE [ok |-> FALSE, touched |-> {}]

\* the indices a loop "for( int i = 0; i < N; i++ )" passes to operator[]
LoopIndices == {i \in 0 .. N : i < N}

\* operator+ written as +=: the sum is built in the object itself
PlusInPlace(p, q) ==
    [this |-> [i \in Idx |-> FAdd(p[i], q[i])],
     ret  |-> [i \in Idx |-> FAdd(p[i], q[i])]]

\* Vector<N> operator+( const Vector<N>& v ): the object after the call, and
\* the returned sum
Plus(p, q) ==
    [this |-> p, ret |-> [i \in Idx |-> FAdd(p[i], q[i])]]

\* operator- with its operands exchanged
MinusReversed(p, q) ==
    [this |-> p, ret |-> [i \in Idx |-> FSub(q[i], p[i])]]

\* Vector<N> operator-( const Vector<N>& v )
Minus(p, q) ==
    [this |-> p, ret |-> [i \in Idx |-> FSub(p[i], q[i])]]

\* Vector<N> operator*( double a ): u*a
Times(p, s) ==
    [this |-> p, ret |-> [i \in Idx |-> FMul(s, p[i])]]

\* a*u written with + for *
TimesLeftAdds(s, p) == [i \in Idx |-> FAdd(s, p[i])]

\* Vector<N> operator*( double a, const Vector<N>& u ): a*u
TimesLeft(s, p) == [i \in Idx |-> FMul(s, p[i])]

RECURSIVE normLoop(_, _, _)
normLoop(p, i, sum) ==
    IF i < N THEN normLoop(p, i + 1, FAdd(sum, FMul(p[i], p[i]))) ELSE sum

\* norm without the square root
normNoSqrt(p) == normLoop(p, 0, Zero)

norm(p) == FSqrt(normLoop(p, 0, Zero))

RECURSIVE innerLoop(_, _, _, _)
innerLoop(p, q, i, sum) ==
    IF i < N THEN innerLoop(p, q, i + 1, FAdd(sum, FMul(p[i], q[i]))) ELSE sum

\* inner with its loop started at 1
innerSkipsFirst(p, q) == innerLoop(p, q, 1, Zero)

inner(p, q) == innerLoop(p, q, 0, Zero)

cross(p, q) ==
    [i \in Idx |->
        CASE i = 0 -> FSub(FMul(p[1], q[2]), FMul(p[2], q[1]))
          [] i = 1 -> FSub(FMul(p[2], q[0]), FMul(p[0], q[2]))
          [] i = 2 -> FSub(FMul(p[0], q[1]), FMul(p[1], q[0]))]

\* det with an index slip in its first cofactor
detIndexSlip(p, q, r) ==
    FAdd(FAdd(FMul(p[0], FSub(FMul(q[1], r[1]), FMul(q[2], r[2]))),
              FMul(p[1], FSub(FMul(q[2], r[0]), FMul(q[0], r[2])))),
         FMul(p[2], FSub(FMul(q[0], r[1]), FMul(q[1], r[0]))))

det(p, q, r) ==
    FAdd(FAdd(FMul(p[0], FSub(FMul(q[1], r[2]), FMul(q[2], r[1]))),
              FMul(p[1], FSub(FMul(q[2], r[0]), FMul(q[0], r[2])))),
         FMul(p[2], FSub(FMul(q[0], r[1]), FMul(q[1], r[0]))))

\* double diff( double x, double y )
diffDouble(x, y) == Fabs(FSub(x, y))

RECURSIVE diffLoop(_, _, _, _)
diffLoop(p, q, i, sum) ==
    IF i < N THEN diffLoop(p, q, i + 1, FAdd(sum, diffDouble(p[i], q[i])))
    ELSE sum

\* double diff( Vector<N> u, Vector<N> v )
diffVector(p, q) == diffLoop(p, q, 0, Zero)

tolerance == FromDecimal(1, 5)

\* int check( T val, T ref ), T = Vector<3>
checkVector(val, ref) == IF FLess(diffVector(val, ref), tolerance) THEN 1 ELSE 0

\* int check( T val, T ref ), T = double
checkDouble(val, ref) == IF FLess(diffDouble(val, ref), tolerance) THEN 1 ELSE 0

(***************************************************************************)
(* Bounds of the model.                                                    *)
(***************************************************************************)
\* longest initializer list handed to the constructor
MaxListLen == 4
\* largest index handed to operator[] (the smallest is -1)
MaxIndex == 3
\* magnitude of the negative integer coordinate of the sampled operands
MaxCoord == 65535
\* the large sampled coordinate is 2^BigExp
BigExp == 54

RECURSIVE ListsUpTo(_, _)
ListsUpTo(S, n) ==
    IF n = 0 THEN {<<>>}
    ELSE LET shorter == ListsUpTo(S, n - 1)
         IN  shorter \cup {Append(l, x) : l \in {k \in shorter : Len(k) = n - 1}, x \in S}

\* the values of the type double: the zeros, the finite values of at most
\* MantBits significant bits between 2^MinExp and 2^MaxExp, the infinities
\* and the NaN
IsBinary64(x) ==
    \/ IsZero(x) \/ IsInf(x) \/ x = NaN
    \/ /\ NIsOdd(x.mant) /\ x.mant[Len(x.mant)] # 0
       /\ NBits(x.mant) <= MantBits
       /\ x.exp >= MinExp
       /\ NBits(x.mant) + x.exp <= MaxExp

Binary64 ==
    {x \in [neg : BOOLEAN, mant : Seq(0 .. (Base - 1)), exp : Int] : IsBinary64(x)}

\* What a storage cell may hold before anything is written to it.  "double
\* u[N]" has no initializer, so the cell is indeterminate: it reads as
\* whatever bit pattern the storage held before (a number an earlier call
\* left on the stack, the bytes of an address or of a small integer), or as
\* whatever the optimiser puts in its place.  Any value of the type can
\* come out.
Stale == Binary64

\* Contents of never-written storage that the initial states name one by
\* one, at least one of each kind of Stale: +0 and -0; the normal numbers
\* 1.8, 3, 4, 7 and -7; the subnormals of the bit patterns 0x00007ffe1eff8c40
\* and 0x000056403209403f (addresses), 0x5 and 0x12 (small integers);
\* +infinity; the NaN.
StaleSample ==
    {Zero, FromBits(32768, 0, 0, 0),
     FromBits(16380, 52428, 52428, 52429),
     FromInt(3), FromInt(4), FromInt(7), FromBits(49180, 0, 0, 0),
     FromBits(0, 32766, 7935, 35904), FromBits(0, 22080, 12809, 16447),
     FromBits(0, 0, 0, 5), FromBits(0, 0, 0, 18),
     FromBits(32752, 0, 0, 0), FromBits(32760, 0, 0, 0)}

\* What the initial states put in a never-written cell: Indeterminate, which
\* is any value of Stale, or one of the values named in StaleSample.
StaleContents == StaleSample \cup {Indeterminate}

\* the initializer lists handed to the constructor
ListVals == {FromInt(3), FromInt(4)}
InitLists == ListsUpTo(ListVals, MaxListLen)

\* the values assigned through operator[]
AssignVals == {FromInt(9)}

\* an initializer list of integer constants, converted to double
Doubles(ints) == [k \in 1 .. Len(ints) |-> FromInt(ints[k])]

\* sampled operands of the arithmetic operations
PairVals == {FromInt(1), FromInt(-MaxCoord), FromDecimal(1, 1),
             Canon(FALSE, <<1>>, 32), Canon(FALSE, <<1>>, BigExp)}
PairVecs == [Idx -> PairVals]
Scalars == {FromInt(4), FromDecimal(1, 1), FromInt(-MaxCoord)}

\* sampled operands of cross, inner and det
TripleVals == {FromInt(1), FromInt(-MaxCoord), FromDecimal(1, 1)}
TripleVecs == [Idx -> TripleVals]

\* sampled operands of cross followed by inner: also 0 and the integer 2^27+1
CrossVals == TripleVals \cup {Zero, FromInt(2^27 + 1)}
CrossVecs == [Idx -> CrossVals]

(***************************************************************************)
(* State.                                                                  *)
(*   pc       where the caller is: the operation just performed            *)
(*   u, v, w  the caller's Vector<3> objects (their storage)               *)
(*   a        the caller's scalar                                          *)
(*   res      the value the last operation returned                        *)
(*   prev     the value returned by the operation before it                *)
(*   coords   the initializer list u was last constructed from             *)
(*   touched  the storage indices the last operation read or wrote         *)
(*   nPassed  test()'s counter                                             *)
(*   log      test()'s output: per check the value, the reference, the     *)
(*            verdict                                                      *)
(***************************************************************************)
VARIABLES pc, u, v, w, a, res, prev, coords, touched, nPassed, log

vars == <<pc, u, v, w, a, res, prev, coords, touched, nPassed, log>>

\* a temporary Vector<3>{...}: its storage before the constructor runs is
\* any stale content; one is enough, since a full list overwrites all of it
Temp(ints) == Construct([i \in Idx |-> Zero], Doubles(ints)).storage

(***************************************************************************)
(* The program: main() runs test(); the header's documented examples; and  *)
(* a caller that constructs a vector and uses it.                          *)
(***************************************************************************)
Init ==
    /\ pc = "start"
    \* u is default-constructed: every cell holds any value of Stale
    /\ u \in [Idx -> StaleContents]
    \* v and w are only ever constructed from full lists, which overwrite
    \* whatever they held: one stale content stands for all
    /\ v = [i \in Idx |-> Zero]
    /\ w = [i \in Idx |-> Zero]
    /\ a = Zero
    /\ res = Zero
    /\ prev = Zero
    /\ coords = <<>>
    /\ touched = {}
    /\ nPassed = 0
    /\ log = <<>>

\* Vector<3> u{ ... }
ConstructU ==
    /\ pc = "start"
    /\ \E list \in InitLists :
         LET c == Construct(u, list) IN
         /\ u' = c.storage
         /\ touched' = c.touched
         /\ coords' = list
         /\ pc' = IF c.touched \subseteq Idx THEN "constructed" ELSE "undefined"
    /\ UNCHANGED <<v, w, a, res, prev, nPassed, log>>

\* double x = u[i]
Index ==
    /\ pc = "constructed"
    /\ \E i \in -1 .. MaxIndex :
         LET c == At(u, i) IN
         /\ touched' = c.touched
         /\ IF c.ok THEN res' = u[i] /\ pc' = "indexed"
                    ELSE res' = res /\ pc' = "aborted"
    /\ UNCHANGED <<u, v, w, a, prev, coords, nPassed, log>>

\* u[i] = c
Assign ==
    /\ pc = "constructed"
    /\ \E i \in -1 .. MaxIndex, c \in AssignVals :
         LET r == At(u, i) IN
         /\ touched' = r.touched
         /\ IF r.ok THEN u' = [u EXCEPT ![i] = c] /\ pc' = "assigned"
                    ELSE u' = u /\ pc' = "aborted"
    /\ UNCHANGED <<v, w, a, res, prev, coords, nPassed, log>>

\* double m = norm( u )
Norm ==
    /\ pc = "constructed"
    /\ res' = norm(u)
    /\ touched' = LoopIndices
    /\ pc' = "norm"
    /\ UNCHANGED <<u, v, w, a, prev, coords, nPassed, log>>

\* the example in det's documentation: e1, e2, e3 and determinant( e1, e2, e3 )
ExampleDet ==
    /\ pc = "start"
    /\ u' = Construct(u, Doubles(<<1, 0, 0>>)).storage
    /\ v' = Construct(v, Doubles(<<0, 1, 0>>)).storage
    /\ w' = Construct(w, Doubles(<<0, 0, 2>>)).storage
    /\ coords' = Doubles(<<1, 0, 0>>)
    /\ res' = det(u', v', w')
    /\ touched' = LoopIndices
    /\ pc' = "example_det"
    /\ UNCHANGED <<a, prev, nPassed, log>>

\* the example in cross's documentation: u, N and cross( N, u ); N is held in v
ExampleCross ==
    /\ pc = "start"
    /\ u' = Construct(u, Doubles(<<2, 3, 0>>)).storage
    /\ v' = Construct(v, Doubles(<<0, 0, 1>>)).storage
    /\ coords' = Doubles(<<2, 3, 0>>)
    /\ res' = cross(v', u')
    /\ touched' = LoopIndices
    /\ pc' = "example_cross"
    /\ UNCHANGED <<w, a, prev, nPassed, log>>

\* test(): the constants
TestBegin ==
    /\ pc = "start"
    /\ u' = Construct(u, Doubles(<<1, 2, 3>>)).storage
    /\ v' = Construct(v, Doubles(<<3, 1, 2>>)).storage
    /\ w' = Construct(w, Doubles(<<5, 3, 7>>)).storage
    /\ a' = FromInt(4)
    /\ coords' = Doubles(<<1, 2, 3>>)
    /\ nPassed' = 0
    /\ log' = <<>>
    /\ touched' = LoopIndices
    /\ pc' = "test1"
    /\ UNCHANGED <<res, prev>>

\* nPassed += check( val, ref ), for a Vector<3>
TestVector(at, val, ref, next) ==
    /\ pc = at
    /\ res' = val
    /\ nPassed' = nPassed + checkVector(val, ref)
    /\ log' = Append(log, [val |-> val, ref |-> ref, ok |-> checkVector(val, ref)])
    /\ pc' = next
    /\ UNCHANGED <<v, w, a, prev, coords, touched>>

\* nPassed += check( val, ref ), for a double
TestDouble(at, val, ref, next) ==
    /\ pc = at
    /\ res' = val
    /\ nPassed' = nPassed + checkDouble(val, ref)
    /\ log' = Append(log, [val |-> val, ref |-> ref, ok |-> checkDouble(val, ref)])
    /\ pc' = next
    /\ UNCHANGED <<u, v, w, a, prev, coords, touched>>

TestAdd ==
    /\ TestVector("test1", Plus(u, v).ret, Temp(<<4, 3, 5>>), "test2")
    /\ u' = Plus(u, v).this

TestSub ==
    /\ TestVector("test2", Minus(u, v).ret, Temp(<<-2, 1, 1>>), "test3")
    /\ u' = Minus(u, v).this

TestTimes ==
    /\ TestVector("test3", Times(u, a).ret, Temp(<<4, 8, 12>>), "test4")
    /\ u' = Times(u, a).this

TestNorm == TestDouble("test4", norm(u), FromDecimal(374166, 5), "test5")

TestInner == TestDouble("test5", inner(u, v), FromInt(11), "test6")

TestCross ==
    /\ TestVector("test6", cross(u, v), Temp(<<1, 7, -5>>), "test7")
    /\ u' = u

TestDet == TestDouble("test7", det(u, v, w), FromInt(-9), "test8")

TestTimesLeft ==
    /\ TestVector("test8", TimesLeft(a, u), Temp(<<4, 8, 12>>), "test9")
    /\ u' = u

\* cout << "PASSED " << nPassed << " OF 8 TESTS"
TestSummary ==
    /\ pc = "test9"
    /\ pc' = "done"
    /\ UNCHANGED <<u, v, w, a, res, prev, coords, touched, nPassed, log>>

Next ==
    \/ ConstructU \/ Index \/ Assign \/ Norm
    \/ ExampleDet \/ ExampleCross
    \/ TestBegin \/ TestAdd \/ TestSub \/ TestTimes \/ TestNorm
    \/ TestInner \/ TestCross \/ TestDet \/ TestTimesLeft \/ TestSummary

Spec == Init /\ [][Next]_vars

(***************************************************************************)
(* Callers that apply the operations to sampled operands.                  *)
(***************************************************************************)
Ready ==
    /\ pc = "ready"
    /\ a = Zero
    /\ res = Zero
    /\ prev = Zero
    /\ coords = <<>>
    /\ touched = {}
    /\ nPassed = 0
    /\ log = <<>>

Call(at, next) ==
    /\ pc = at
    /\ pc' = next
    /\ prev' = res
    /\ touched' = LoopIndices
    /\ UNCHANGED <<coords, nPassed, log>>

\* u + v
Add ==
    /\ Call("ready", "add")
    /\ u' = Plus(u, v).this
    /\ res' = Plus(u, v).ret
    /\ UNCHANGED <<v, w, a>>

\* u - v
Sub ==
    /\ Call("ready", "sub")
    /\ u' = Minus(u, v).this
    /\ res' = Minus(u, v).ret
    /\ UNCHANGED <<v, w, a>>

\* (u - v) + v: the temporary u - v is the left operand
AddBack ==
    /\ Call("sub", "addback")
    /\ res' = Plus(res, v).ret
    /\ UNCHANGED <<u, v, w, a>>

\* u * a
MulRight ==
    /\ Call("ready", "mulright")
    /\ \E s \in Scalars :
         /\ a' = s
         /\ u' = Times(u, s).this
         /\ res' = Times(u, s).ret
    /\ UNCHANGED <<v, w>>

\* a * u
MulLeft ==
    /\ Call("mulright", "mulleft")
    /\ res' = TimesLeft(a, u)
    /\ UNCHANGED <<u, v, w, a>>

InitPairs ==
    /\ Ready
    /\ u \in PairVecs
    /\ v \in PairVecs
    /\ w = v

NextPairs == Add \/ Sub \/ AddBack \/ MulRight \/ MulLeft

SpecPairs == InitPairs /\ [][NextPairs]_vars

\* cross( u, v )
Cross ==
    /\ Call("ready", "cross")
    /\ res' = cross(u, v)
    /\ UNCHANGED <<u, v, w, a>>

\* inner( cross( u, v ), u )
InnerU ==
    /\ Call("cross", "cross_inner_u")
    /\ res' = inner(res, u)
    /\ UNCHANGED <<u, v, w, a>>

\* inner( cross( u, v ), v )
InnerV ==
    /\ Call("cross", "cross_inner_v")
    /\ res' = inner(res, v)
    /\ UNCHANGED <<u, v, w, a>>

\* inner( cross( u, v ), w )
InnerW ==
    /\ Call("cross", "cross_inner_w")
    /\ res' = inner(res, w)
    /\ UNCHANGED <<u, v, w, a>>

\* det( u, v, w ), after inner( cross( u, v ), w )
Det ==
    /\ Call("cross_inner_w", "det")
    /\ res' = det(u, v, w)
    /\ UNCHANGED <<u, v, w, a>>

InitCross ==
    /\ Ready
    /\ u \in CrossVecs
    /\ v \in CrossVecs
    /\ w = v

NextCross == Cross \/ InnerU \/ InnerV

SpecCross == InitCross /\ [][NextCross]_vars

InitTriples ==
    /\ Ready
    /\ u \in TripleVecs
    /\ v \in TripleVecs
    /\ w \in TripleVecs

NextTriples == Cross \/ InnerW \/ Det

SpecTriples == InitTriples /\ [][NextTriples]_vars

(***************************************************************************)
(* Properties.                                                             *)
(***************************************************************************)
\* an integer of magnitude at most 2^16
SmallInt(x) ==
    /\ x.exp >= 0
    /\ \/ NBits(x.mant) + x.exp <= 16
       \/ (x.mant = <<1>> /\ x.exp = 16)

SmallInts(p) == \A i \in Idx : SmallInt(p[i])

\* a double of magnitude at most 2^32
Within32(x) == ~FLess(Canon(FALSE, <<1>>, 32), Fabs(x))

AllWithin32(p) == \A i \in Idx : Within32(p[i])

\* x == y on doubles: the zeros of either sign are equal, a NaN equals nothing
FEq(x, y) == ~IsNaN(x) /\ ~IsNaN(y) /\ (x = y \/ (IsZero(x) /\ IsZero(y)))

\* C1: when test() prints its summary all eight checks have returned 1 and
\* nPassed is 8; the seven exact values are the reference values and norm(u)
\* is within the tolerance of 3.74166.
C1_TestPassesAll ==
    pc = "done" =>
        /\ nPassed = 8
        /\ Len(log) = 8
        /\ \A k \in 1 .. 8 : log[k].ok = 1
        /\ log[1].val = Temp(<<4, 3, 5>>)
        /\ log[2].val = Temp(<<-2, 1, 1>>)
        /\ log[3].val = Temp(<<4, 8, 12>>)
        /\ FLess(diffDouble(log[4].val, FromDecimal(374166, 5)), FromDecimal(1, 5))
        /\ log[5].val = FromInt(11)
        /\ log[6].val = Temp(<<1, 7, -5>>)
        /\ log[7].val = FromInt(-9)
        /\ log[8].val = Temp(<<4, 8, 12>>)

C1_Witness == pc = "done" /\ Len(log) = 8 /\ u = Temp(<<1, 2, 3>>)

\* C2 as claimed: for all sampled u, v, w, det(u,v,w) equals
\* inner(cross(u,v), w) (prev holds inner(cross(u,v), w), res holds det).
C2_TripleProductExact == pc = "det" => FEq(res, prev)

\* C2 amended: det(u,v,w) equals inner(cross(u,v), w) when every coordinate
\* is an integer of magnitude at most 2^16.
C2_TripleProductSmallInts ==
    (pc = "det" /\ SmallInts(u) /\ SmallInts(v) /\ SmallInts(w)) => FEq(res, prev)

C2_Witness ==
    /\ pc = "det" /\ SmallInts(u) /\ SmallInts(v) /\ SmallInts(w)
    /\ FEq(res, prev) /\ ~IsZero(res)

\* C3 as claimed: inner(cross(u,v), u) and inner(cross(u,v), v) are 0.
C3_CrossOrthogonalExact ==
    pc \in {"cross_inner_u", "cross_inner_v"} => FEq(res, Zero)

\* C3 amended: inner(cross(u,v), u) and inner(cross(u,v), v) are 0 when every
\* coordinate is an integer of magnitude at most 2^16.
C3_CrossOrthogonalSmallInts ==
    (pc \in {"cross_inner_u", "cross_inner_v"} /\ SmallInts(u) /\ SmallInts(v))
        => FEq(res, Zero)

C3_Witness ==
    /\ pc = "cross_inner_v" /\ SmallInts(u) /\ SmallInts(v)
    /\ (\E i \in Idx : ~IsZero(prev[i])) /\ FEq(res, Zero)

\* C4: u+v has coordinate i equal to u[i]+v[i], and the call leaves u and v
\* as they were.
C4_AddCoordinatewise ==
    [][(pc = "ready" /\ pc' = "add") =>
          /\ \A i \in Idx : res'[i] = FAdd(u[i], v[i])
          /\ u' = u
          /\ v' = v]_vars

C4_Witness == pc = "add" /\ res # u /\ res # v

\* C5 as claimed: (u-v)+v is within 1e-5 of u in every coordinate.
C5_SubAddRoundTrip ==
    pc = "addback" =>
        \A i \in Idx : FLess(diffDouble(res[i], u[i]), FromDecimal(1, 5))

\* C5 amended: (u-v)+v is within 1e-5 of u in every coordinate when the
\* coordinates of u and v have magnitude at most 2^32.
C5_SubAddRoundTripBounded ==
    (pc = "addback" /\ AllWithin32(u) /\ AllWithin32(v)) =>
        \A i \in Idx : FLess(diffDouble(res[i], u[i]), FromDecimal(1, 5))

C5_Witness ==
    /\ pc = "addback" /\ AllWithin32(u) /\ AllWithin32(v)
    /\ res # u
    /\ \A i \in Idx : FLess(diffDouble(res[i], u[i]), FromDecimal(1, 5))

\* C6: a*u and u*a are the same vector, with coordinate i equal to a*u[i]
\* (prev holds u*a, res holds a*u).
C6_ScalarMulCommutes ==
    pc = "mulleft" =>
        /\ res = prev
        /\ \A i \in Idx : res[i] = FMul(a, u[i])

C6_Witness == pc = "mulleft" /\ res = prev /\ res # u

\* C7: no operation touches storage at an index outside 0..N-1, and an
\* out-of-range index handed to operator[] aborts before storage is touched.
C7_IndexAccessesInRange ==
    /\ touched \subseteq Idx
    /\ pc = "aborted" => touched = {}

\* C8: det of e1=(1,0,0), e2=(0,1,0), e3=(0,0,2), the example in det's
\* documentation, is 1.
C8_ExampleDetIsOne == pc = "example_det" => res = FromInt(1)

\* C9: for u=(2,3,0) and N=(0,0,1), the example in cross's documentation,
\* cross(N,u) is (3,-2,0).
C9_ExampleCrossAsDocumented == pc = "example_cross" => res = Temp(<<3, -2, 0>>)

\* C10: a Vector<3> constructed from the list {3,4} has norm 5.
C10_NormOfShortList ==
    (pc = "norm" /\ coords = Doubles(<<3, 4>>)) => res = FromInt(5)
=============================================================================
